---- MODULE Spec2Model ----
(***************************************************************************)
(* Model of im2scene/giraffe/training.py : class Trainer.                  *)
(*                                                                         *)
(* The Trainer drives three networks (live generator "G", discriminator    *)
(* "D", optional EMA generator "E" = model.generator_test) and two         *)
(* optimizers.  Each public method is a sequence of blocks executed by a   *)
(* single thread; `pc` is the position inside the running call and `call`  *)
(* the method the caller invoked.  Tensors are abstracted to what the      *)
(* control flow of the file depends on; parameters are fixed-point         *)
(* integers (1 unit = 1/1000).                                             *)
(***************************************************************************)
EXTENDS Integers, Sequences, FiniteSets

(* ------------------------------ bounds -------------------------------- *)
\* number of Trainer method calls the caller makes
MaxCalls == 2
\* largest n_eval_iterations the trainer is constructed with
MaxEvalIter == 2

(* -------------------------- program constants -------------------------- *)
\* update_average(..., beta=0.999), in thousandths
EmaBetaMilli_slow == 1000 - 10
EmaBetaMilli == 999
BetaDen == 1000
\* 'visualization_%010d.png'
PadWidth == 10

Nets == {"G", "D", "E"}
ParamNames == {"w", "b"}
\* parameter displacements an optimizer step may cause (thousandths)
Deltas == {[w |-> 0, b |-> 0], [w |-> 1000, b |-> -500]}
\* iteration number the training loop passes with its n-th visualization
ItOf(n) == 5 + 7 * n
\* batches: data.get('image') is None for a batch without the image entry
Batches == {[id |-> 1, hasImage |-> TRUE], [id |-> 2, hasImage |-> FALSE]}
\* mode argument of visualize: 'val' or the default None
Modes == {"val", "None"}
\* val_idx values the caller passes: None, booleans, integers
ValIdxs == {"None", "True", "False", "1"}
\* A float x is held as [v, e]: v the nearest multiple of the unit and e the
\* sign of x - v*unit, the part of the binary value the decimal v leaves out
\* (e = 0 only for values the binary format holds exactly).
Fl(v, e) == [v |-> v, e |-> e]
\* (psnr, ssim) batch means, unit 1/1000: 24.993 and 0.873 as doubles
MetricSamples == {<<Fl(24993, -1), Fl(873, -1)>>}
\* uvs returned by the generator: 3 flattened arrays, unit 1/10000:
\* float32 [0.1234, 0.5005]; float64 [0.0015, 0.0025, 0.0625];
\* float32 [0.9995, 0.3125]
UvSamples == { << <<Fl(1234, 1), Fl(5005, 1)>>,
                  <<Fl(15, 1), Fl(25, 1), Fl(625, 0)>>,
                  <<Fl(9995, -1), Fl(3125, 0)>> >> }
\* what __init__ finds: [dir |-> a path was passed (else None),
\* old |-> that directory already holds a uv.txt]
DirSetups == {[vis_dir |-> [dir |-> FALSE, old |-> FALSE],
               val_vis_dir |-> [dir |-> FALSE, old |-> FALSE]],
              [vis_dir |-> [dir |-> TRUE, old |-> FALSE],
               val_vis_dir |-> [dir |-> TRUE, old |-> FALSE]],
              [vis_dir |-> [dir |-> TRUE, old |-> TRUE],
               val_vis_dir |-> [dir |-> TRUE, old |-> FALSE]],
              [vis_dir |-> [dir |-> TRUE, old |-> FALSE],
               val_vis_dir |-> [dir |-> FALSE, old |-> FALSE]]}
FidKeySets == SUBSET {"m", "s"}

NoSeq == <<>>

VARIABLES
    hasEMA,             \* model.generator_test is not None
    multi_gpu,          \* self.multi_gpu
    fid_dict,           \* keys of self.fid_dict
    n_eval_iterations,  \* self.n_eval_iterations
    params,             \* [net -> [param -> value]]
    training,           \* module.training per net
    requires_grad,      \* requires_grad of the net's parameters
    grad,               \* the net's parameters hold a gradient
    optSteps,           \* optimizer step counters: "G" self.optimizer, "D" self.optimizer_d
    uvFile,             \* uv.txt per directory: [exists, lines]
    images,             \* image files per directory
    imgWrites,          \* save_image calls per directory
    call,               \* method invoked by the caller
    pc,                 \* position inside the call
    data,               \* batch argument of the call
    args,               \* it / mode / val_idx / uv arguments of the call
    loc,                \* locals of the running call
    pre,                \* state at entry of the running (sub-)call
    result,             \* value returned / error raised by the call
    hasDir,             \* per directory: vis_dir / val_vis_dir is not None
    uvInit,             \* per directory: lines uv.txt held when __init__ ran
    uvHist,             \* per directory: `it` of every record_uvs call so far
    nCalls              \* calls made so far

vars == <<hasEMA, multi_gpu, fid_dict, n_eval_iterations, params, training,
          requires_grad, grad, optSteps, uvFile, images, imgWrites, call, pc,
          data, args, loc, pre, result, hasDir, uvInit, uvHist, nCalls>>

config == <<hasEMA, multi_gpu, fid_dict, n_eval_iterations, hasDir, uvInit>>
nets == <<params, training, requires_grad, grad, optSteps>>
files == <<uvFile, images, imgWrites, uvHist>>

Dirs == {"vis_dir", "val_vis_dir"}

(* ------------------------------ helpers ------------------------------- *)
NoData == [id |-> 0, hasImage |-> FALSE]
NoArgs == [it |-> 0, mode |-> "", val_idx |-> "", uv |-> NoSeq, dir |-> ""]
NoLoc == [gen |-> "", producer |-> "", producerTraining |-> FALSE,
          x_fake |-> NoSeq, x_cat |-> NoSeq, statsOf |-> NoSeq, nStats |-> 0,
          x_real |-> [G |-> 0, D |-> 0], sampleNoGrad |-> FALSE,
          psnr |-> NoSeq, ssim |-> NoSeq, out_file_name |-> NoSeq,
          uvs |-> NoSeq, tsOpt |-> [G |-> 0, D |-> 0]]
NoResult == [kind |-> "", keys |-> {}, grid |-> NoSeq, psnr |-> NoSeq,
             ssim |-> NoSeq, err |-> ""]
Snapshot == [params |-> params, optSteps |-> optSteps, grad |-> grad,
             training |-> training,
             uvFile |-> uvFile, images |-> images, imgWrites |-> imgWrites]
NoPre == [params |-> [n \in Nets |-> [p \in ParamNames |-> 0]],
          optSteps |-> [G |-> 0, D |-> 0],
          grad |-> [n \in Nets |-> FALSE],
          training |-> [n \in Nets |-> FALSE],
          uvFile |-> [d \in Dirs |-> [exists |-> FALSE, lines |-> NoSeq]],
          images |-> [d \in Dirs |-> {}],
          imgWrites |-> [d \in Dirs |-> 0]]

Raise(e) == [NoResult EXCEPT !.kind = "error", !.err = e]

(* --------------------- framework / library primitives ------------------ *)
\* toggle_grad(module, flag): sets requires_grad of every parameter
toggle_grad(rg, net, flag) == [rg EXCEPT ![net] = flag]

\* module.train() / module.eval()
SetTraining(tr, net, flag) == [tr EXCEPT ![net] = flag]

\* loss.backward(): a net receives gradients iff it is in the graph of the
\* loss and its parameters require gradients
Backward(g, rg, inGraph) == [n \in Nets |-> g[n] \/ (n \in inGraph /\ rg[n])]

\* optimizer.step(): moves the parameters of the optimizer's net that hold
\* a gradient by the displacement d
StepParams(ps, g, net, d) ==
    IF g[net] THEN [ps EXCEPT ![net] = [p \in ParamNames |-> ps[net][p] + d[p]]]
    ELSE ps

\* update_average(model_tgt, model_src, beta): p_tgt <- beta*p_tgt + (1-beta)*p_src
EmaBlend(tgt, src, betaMilli) ==
    (betaMilli * tgt + (BetaDen - betaMilli) * src) \div BetaDen
update_average(ps, tgtNet, srcNet, betaMilli) ==
    [ps EXCEPT ![tgtNet] =
        [p \in ParamNames |-> EmaBlend(ps[tgtNet][p], ps[srcNet][p], betaMilli)]]
\* update_average runs without gradient tracking: it switches requires_grad
\* off on the source and the target network
update_average_grads(rg, tgtNet, srcNet) ==
    toggle_grad(toggle_grad(rg, srcNet, FALSE), tgtNet, FALSE)

(* ---------------------------- __init__ --------------------------------- *)
\* content of a uv.txt found in a directory that existed before __init__
OldLines == <<[label |-> "old", it |-> 0, out |-> NoSeq]>>

InitParams == [n \in Nets |-> [p \in ParamNames |->
                 IF n = "D" THEN 3000 ELSE IF p = "w" THEN 1000 ELSE 2000]]

Init ==
    /\ hasEMA \in BOOLEAN
    /\ multi_gpu \in BOOLEAN
    /\ fid_dict \in FidKeySets
    /\ n_eval_iterations \in 0..MaxEvalIter
    /\ params = InitParams
    /\ training = [n \in Nets |-> TRUE]
    /\ requires_grad = [n \in Nets |-> TRUE]
    /\ grad = [n \in Nets |-> FALSE]
    /\ optSteps = [G |-> 0, D |-> 0]
    /\ \E su \in DirSetups :
         /\ hasDir = [d \in Dirs |-> su[d].dir]
         /\ uvFile = [d \in Dirs |->
                       IF su[d].old THEN [exists |-> TRUE, lines |-> OldLines]
                       ELSE [exists |-> FALSE, lines |-> NoSeq]]
         /\ uvInit = [d \in Dirs |-> IF su[d].old THEN OldLines ELSE NoSeq]
    /\ uvHist = [d \in Dirs |-> NoSeq]
    /\ images = [d \in Dirs |-> {}]
    /\ imgWrites = [d \in Dirs |-> 0]
    /\ call = "none"
    /\ pc = "idle"
    /\ data = NoData
    /\ args = NoArgs
    /\ loc = NoLoc
    /\ pre = NoPre
    /\ result = NoResult
    /\ nCalls = 0

(* ---------------------------- train_step ------------------------------- *)
\* keys of the mapping train_step returns
TrainStepKeys_short == {"generator_total", "generator_random", "recon",
                        "discriminator", "regularizer", "real_d"}
TrainStepKeys == {"generator_total", "generator_random", "recon",
                  "discriminator", "regularizer", "real_d", "rand_d"}

\* optimizer stepped by train_step_generator / train_step_discriminator
GenStepOptimizer == "G"
DiscStepOptimizer_other == "G"
DiscStepOptimizer == "D"

\* modes after generator.train(); discriminator.train()
GenStepModes_keep(tr) == SetTraining(tr, "D", TRUE)
GenStepModes(tr) == SetTraining(SetTraining(tr, "G", TRUE), "D", TRUE)
DiscStepModes(tr) == SetTraining(SetTraining(tr, "G", TRUE), "D", TRUE)

\* requires_grad after toggle_grad(generator, True); toggle_grad(discriminator, False)
GenStepGrads_open(rg) == toggle_grad(toggle_grad(rg, "G", TRUE), "D", TRUE)
GenStepGrads(rg) == toggle_grad(toggle_grad(rg, "G", TRUE), "D", FALSE)
\* requires_grad after toggle_grad(generator, False); toggle_grad(discriminator, True)
DiscStepGrads(rg) == toggle_grad(toggle_grad(rg, "G", FALSE), "D", TRUE)

\* the generator call producing x_rand sits inside `with torch.no_grad()`
\* in the multi_gpu branch and in the single-device branch
DiscSampleNoGrad(mg) == IF mg THEN TRUE ELSE TRUE

(* ------------------------ train_step_generator ------------------------- *)
\* train_step_generator up to gen_loss.backward():
\* toggle_grad(generator, True); toggle_grad(discriminator, False);
\* generator.train(); discriminator.train(); self.optimizer.zero_grad();
\* x_real = data.get('image').to(device)  (None has no .to);
\* forward through generator and discriminator; gen_loss.backward()
GenBegin(d, l0) ==
    /\ requires_grad' = GenStepGrads(requires_grad)
    /\ training' = GenStepModes(training)
    /\ IF ~d.hasImage
       THEN /\ grad' = [grad EXCEPT !["G"] = FALSE]
            /\ loc' = l0
            /\ result' = Raise("AttributeError")
            /\ pc' = "ret"
       ELSE /\ grad' = Backward([grad EXCEPT !["G"] = FALSE],
                                GenStepGrads(requires_grad), {"G", "D"})
            /\ loc' = [l0 EXCEPT !.x_real = [@ EXCEPT !.G = d.id]]
            /\ result' = NoResult
            /\ pc' = "g_step"

\* train_step_discriminator up to loss_d_full.backward():
\* toggle_grad(generator, False); toggle_grad(discriminator, True);
\* generator.train(); discriminator.train(); self.optimizer_d.zero_grad();
\* x_real = data.get('image').to(device); real score, R1 penalty, random
\* sample under torch.no_grad(), fake score; loss_d_full.backward()
DiscBegin(d, l0) ==
    /\ requires_grad' = DiscStepGrads(requires_grad)
    /\ training' = DiscStepModes(training)
    /\ IF ~d.hasImage
       THEN /\ grad' = [grad EXCEPT !["D"] = FALSE]
            /\ loc' = l0
            /\ result' = Raise("AttributeError")
            /\ pc' = "ret"
       ELSE /\ grad' = Backward([grad EXCEPT !["D"] = FALSE],
                                DiscStepGrads(requires_grad),
                                IF DiscSampleNoGrad(multi_gpu) THEN {"D"}
                                ELSE {"G", "D"})
            /\ loc' = [l0 EXCEPT !.x_real = [@ EXCEPT !.D = d.id],
                                 !.sampleNoGrad = DiscSampleNoGrad(multi_gpu)]
            /\ result' = NoResult
            /\ pc' = "d_step"

\* the caller invokes train_step(data): control enters train_step_generator
TrainStep(d) ==
    /\ pc = "idle" /\ nCalls < MaxCalls
    /\ call' = "train_step"
    /\ data' = d /\ args' = NoArgs
    /\ pre' = Snapshot
    /\ nCalls' = nCalls + 1
    /\ GenBegin(d, [NoLoc EXCEPT !.tsOpt = optSteps])
    /\ UNCHANGED <<config, params, optSteps, files>>

\* the caller invokes train_step_generator(data) directly
CallGenerator(d) ==
    /\ pc = "idle" /\ nCalls < MaxCalls
    /\ call' = "train_step_generator"
    /\ data' = d /\ args' = NoArgs
    /\ pre' = Snapshot
    /\ nCalls' = nCalls + 1
    /\ GenBegin(d, NoLoc)
    /\ UNCHANGED <<config, params, optSteps, files>>

\* self.optimizer.step();
\* if self.generator_test is not None:
\*     update_average(self.generator_test, generator, beta=0.999)
GenOptStep ==
    /\ pc = "g_step"
    /\ \E d \in Deltas :
         LET stepped == StepParams(params, grad, GenStepOptimizer, d)
         IN params' = IF hasEMA
                      THEN update_average(stepped, "E", "G", EmaBetaMilli)
                      ELSE stepped
    /\ optSteps' = [optSteps EXCEPT ![GenStepOptimizer] = @ + 1]
    /\ requires_grad' = IF hasEMA
                        THEN update_average_grads(requires_grad, "E", "G")
                        ELSE requires_grad
    /\ pc' = "g_done"
    /\ UNCHANGED <<config, training, grad, files, call, data, args, loc, pre,
                   result, nCalls>>

\* return gen_loss.item(), loss_recon.item(), gloss_rand.item();
\* inside train_step control continues with train_step_discriminator on
\* the same data
GenReturn ==
    /\ pc = "g_done"
    /\ IF call = "train_step"
       THEN /\ pre' = Snapshot
            /\ DiscBegin(data, loc)
       ELSE /\ pc' = "ret"
            /\ result' = [NoResult EXCEPT !.kind = "tuple3"]
            /\ UNCHANGED <<pre, requires_grad, training, grad, loc>>
    /\ UNCHANGED <<config, params, optSteps, files, call, data, args, nCalls>>

(* ---------------------- train_step_discriminator ----------------------- *)
\* the caller invokes train_step_discriminator(data) directly
CallDiscriminator(d) ==
    /\ pc = "idle" /\ nCalls < MaxCalls
    /\ call' = "train_step_discriminator"
    /\ data' = d /\ args' = NoArgs
    /\ pre' = Snapshot
    /\ nCalls' = nCalls + 1
    /\ DiscBegin(d, NoLoc)
    /\ UNCHANGED <<config, params, optSteps, files>>

\* self.optimizer_d.step()
DiscOptStep ==
    /\ pc = "d_step"
    /\ \E d \in Deltas :
         params' = StepParams(params, grad, DiscStepOptimizer, d)
    /\ optSteps' = [optSteps EXCEPT ![DiscStepOptimizer] = @ + 1]
    /\ pc' = "d_done"
    /\ UNCHANGED <<config, training, requires_grad, grad, files, call, data,
                   args, loc, pre, result, nCalls>>

\* return (d_loss.item(), reg.item(), d_loss_real.item(), d_loss_rand.item());
\* inside train_step the seven-entry mapping is built and returned
DiscReturn ==
    /\ pc = "d_done"
    /\ pc' = "ret"
    /\ result' = IF call = "train_step"
                 THEN [NoResult EXCEPT !.kind = "mapping", !.keys = TrainStepKeys]
                 ELSE [NoResult EXCEPT !.kind = "tuple4"]
    /\ UNCHANGED <<config, nets, files, call, data, args, loc, pre, nCalls>>

\* the call has returned or raised: control is back with the caller
Return ==
    /\ pc = "ret"
    /\ pc' = "idle" /\ call' = "none"
    /\ data' = NoData /\ args' = NoArgs /\ loc' = NoLoc /\ pre' = NoPre
    /\ result' = NoResult
    /\ UNCHANGED <<config, nets, files, nCalls>>

(* ----------------------------- eval_step ------------------------------- *)
\* gen = self.model.generator_test; if gen is None: gen = self.model.generator
SelectGen(ema) == IF ema THEN "E" ELSE "G"

\* for i in range(n_iter): the loop body runs while i < n_iter
EvalLoopMore_extra(done, n_iter) == done < n_iter + 1
EvalLoopMore(done, n_iter) == done < n_iter

\* self.fid_dict['m'], self.fid_dict['s'] are evaluated left to right
FidLookup_mOnly(d) == IF "m" \notin d THEN "KeyError" ELSE ""
FidLookup(d) ==
    IF "m" \notin d THEN "KeyError" ELSE IF "s" \notin d THEN "KeyError" ELSE ""

\* the caller invokes eval_step(): gen selected, gen.eval(), x_fake = []
EvalStep ==
    /\ pc = "idle" /\ nCalls < MaxCalls
    /\ call' = "eval_step" /\ pc' = "e_loop"
    /\ loc' = [NoLoc EXCEPT !.gen = SelectGen(hasEMA)]
    /\ training' = SetTraining(training, SelectGen(hasEMA), FALSE)
    /\ pre' = Snapshot
    /\ nCalls' = nCalls + 1
    /\ UNCHANGED <<config, params, requires_grad, grad, optSteps, files, data,
                   args, result>>

\* one loop iteration: with torch.no_grad(): x_fake.append(gen().cpu()[:, :3])
EvalSynth ==
    /\ pc = "e_loop"
    /\ EvalLoopMore(Len(loc.x_fake), n_eval_iterations)
    /\ loc' = [loc EXCEPT !.x_fake =
                 Append(@, [by |-> loc.gen, evalMode |-> ~training[loc.gen],
                            idx |-> Len(loc.x_fake) + 1])]
    /\ UNCHANGED <<config, nets, files, call, pc, data, args, pre, result, nCalls>>

\* x_fake = torch.cat(x_fake, dim=0)   (raises on an empty list);
\* x_fake.clamp_(0., 1.); mu, sigma = calculate_activation_statistics(x_fake);
\* fid_score = calculate_frechet_distance(mu, sigma, fid_dict['m'],
\* fid_dict['s'], eps=1e-4); return {'fid_score': fid_score}
EvalFinish ==
    /\ pc = "e_loop"
    /\ ~EvalLoopMore(Len(loc.x_fake), n_eval_iterations)
    /\ IF loc.x_fake = NoSeq
       THEN /\ result' = Raise("RuntimeError")
            /\ UNCHANGED loc
       ELSE /\ loc' = [loc EXCEPT !.x_cat = loc.x_fake, !.nStats = @ + 1,
                                  !.statsOf = loc.x_fake]
            /\ result' = IF FidLookup(fid_dict) # ""
                         THEN Raise(FidLookup(fid_dict))
                         ELSE [NoResult EXCEPT !.kind = "mapping",
                                               !.keys = {"fid_score"}]
    /\ pc' = "ret"
    /\ UNCHANGED <<config, nets, files, call, data, args, pre, nCalls>>

(* ----------------------------- record_uvs ------------------------------ *)
\* round(x, n) for x held to one digit more than n: the binary value is
\* rounded to the nearest n-digit decimal, so a decimal tie in v is decided
\* by e, and only an exact tie (e = 0) goes to the even neighbour
PyRound(x) ==
    LET q == x.v \div 10
        r == x.v % 10
    IN IF r > 5 THEN q + 1
       ELSE IF r < 5 THEN q
       ELSE IF x.e > 0 THEN q + 1
       ELSE IF x.e < 0 THEN q
       ELSE IF q % 2 = 1 THEN q + 1 ELSE q

\* name_dict = {0: 'pred', 1: 'swap', 2: 'rand'} (1-based here)
name_dict == <<"pred", "swap", "rand">>

\* mode the file is opened in
OpenMode_w(exists) == "w"
OpenMode(exists) == IF ~exists THEN "w" ELSE "a"

\* open(out_path, mode): 'w' creates or truncates, 'a' creates or keeps
Open(file, mode) ==
    IF mode = "w" THEN [exists |-> TRUE, lines |-> NoSeq]
    ELSE [exists |-> TRUE, lines |-> file.lines]

\* line = rounded flattened values; out = consecutive pairs
UvPairs(line) ==
    [idx \in 1..(Len(line) \div 2) |-> <<line[2 * idx - 1], line[2 * idx]>>]
UvLine(uv_i, i, it) ==
    [label |-> name_dict[i], it |-> it,
     out |-> UvPairs([k \in 1..Len(uv_i) |-> PyRound(uv_i[k])])]
BlankLine == [label |-> "", it |-> 0, out |-> NoSeq]

record_uvs(file, uv, it) ==
    LET f == Open(file, OpenMode(file.exists))
    IN [exists |-> TRUE,
        lines |-> f.lines \o [i \in 1..Len(uv) |-> UvLine(uv[i], i, it)]
                          \o <<BlankLine>>]

\* iteration number of the next visualization
NextIt == ItOf(Len(uvHist["vis_dir"]) + Len(uvHist["val_vis_dir"]))

\* the caller invokes record_uvs(uv, path, it) directly, path being
\* self.vis_dir or self.val_vis_dir; os.path.join(None, 'uv.txt') raises
RecordUvs(uv, dir) ==
    /\ pc = "idle" /\ nCalls < MaxCalls
    /\ call' = "record_uvs" /\ pc' = "ret"
    /\ args' = [NoArgs EXCEPT !.it = NextIt, !.uv = uv, !.dir = dir]
    /\ pre' = Snapshot
    /\ IF ~hasDir[dir]
       THEN /\ result' = Raise("TypeError")
            /\ UNCHANGED <<uvFile, uvHist>>
       ELSE /\ uvFile' = [uvFile EXCEPT ![dir] = record_uvs(@, uv, NextIt)]
            /\ uvHist' = [uvHist EXCEPT ![dir] = Append(@, NextIt)]
            /\ result' = [NoResult EXCEPT !.kind = "None"]
    /\ nCalls' = nCalls + 1
    /\ UNCHANGED <<config, nets, images, imgWrites, data, loc>>

(* ----------------------------- visualize ------------------------------- *)
RECURSIVE Digits(_)
Digits(n) == IF n < 10 THEN <<n>> ELSE Append(Digits(n \div 10), n % 10)

\* '%010d' % it
Pad10(it) ==
    LET ds == Digits(it)
    IN IF Len(ds) >= PadWidth THEN ds
       ELSE [i \in 1..(PadWidth - Len(ds)) |-> 0] \o ds

\* 'visualization_%010d.png' % it
SnapshotName(it) ==
    [fmt |-> "visualization_%010d.png", it |-> Pad10(it), P |-> NoSeq, S |-> NoSeq]
\* f'visualization_{it}_evaluation_P{round(psnr, 2)}_S{round(ssim, 2)}.png'
EvaluationName(it, psnr, ssim) ==
    [fmt |-> "visualization_{it}_evaluation_P{psnr}_S{ssim}.png", it |-> Digits(it),
     P |-> <<PyRound(psnr)>>, S |-> <<PyRound(ssim)>>]

\* val_idx == True
SaveFlag_always(val_idx) == TRUE
SaveFlag(val_idx) == val_idx \in {"True", "1"}

\* the network called to produce the images: self.generator
VisProducer == "G"

\* the caller invokes visualize(data, it, mode, val_idx):
\* gen selected, gen.eval(); with torch.no_grad():
\* x_real = data.get('image').cuda()  (None has no .cuda);
\* image_fake, image_swap, image_rand, uvs = self.generator(x_real, mode='val', need_uv=True)
Visualize(d, mode, val_idx) ==
    /\ pc = "idle" /\ nCalls < MaxCalls
    /\ call' = "visualize"
    /\ data' = d
    /\ args' = [NoArgs EXCEPT !.it = NextIt, !.mode = mode, !.val_idx = val_idx]
    /\ training' = SetTraining(training, SelectGen(hasEMA), FALSE)
    /\ pre' = Snapshot
    /\ nCalls' = nCalls + 1
    /\ IF ~d.hasImage
       THEN /\ loc' = [NoLoc EXCEPT !.gen = SelectGen(hasEMA)]
            /\ result' = Raise("AttributeError")
            /\ pc' = "ret"
       ELSE /\ \E uv \in UvSamples :
                 loc' = [NoLoc EXCEPT
                           !.gen = SelectGen(hasEMA),
                           !.producer = VisProducer,
                           !.producerTraining =
                               SetTraining(training, SelectGen(hasEMA), FALSE)[VisProducer],
                           !.uvs = uv]
            /\ result' = NoResult
            /\ pc' = "v_metric"
    /\ UNCHANGED <<config, params, requires_grad, grad, optSteps, files>>

\* if mode == 'val': psnr/ssim batch means, then the val_idx branch;
\* else: snapshot file name, psnr = ssim = None
VisMetrics ==
    /\ pc = "v_metric"
    /\ IF args.mode = "val"
       THEN \E m \in MetricSamples :
              IF SaveFlag(args.val_idx)
              THEN /\ loc' = [loc EXCEPT !.psnr = <<m[1]>>, !.ssim = <<m[2]>>,
                                !.out_file_name = <<EvaluationName(args.it, m[1], m[2])>>]
                   /\ pc' = "v_save"
                   /\ UNCHANGED result
              ELSE /\ loc' = [loc EXCEPT !.psnr = <<m[1]>>, !.ssim = <<m[2]>>]
                   /\ result' = [NoResult EXCEPT !.kind = "tuple3", !.grid = NoSeq,
                                   !.psnr = <<m[1]>>, !.ssim = <<m[2]>>]
                   /\ pc' = "ret"
       ELSE /\ loc' = [loc EXCEPT !.out_file_name = <<SnapshotName(args.it)>>]
            /\ pc' = "v_save"
            /\ UNCHANGED result
    /\ UNCHANGED <<config, nets, files, call, data, args, pre, nCalls>>

\* directory the grid and the UV record go to
VisDir(mode) == IF mode = "val" THEN "val_vis_dir" ELSE "vis_dir"

\* image_grid = make_grid(...);
\* save_image(image_grid, os.path.join(dir, out_file_name))  (raises when the
\* directory is None, before anything is written);
\* self.record_uvs(uvs, dir, it); return image_grid, psnr, ssim
VisSave ==
    /\ pc = "v_save"
    /\ LET dir == VisDir(args.mode)
       IN IF ~hasDir[dir]
          THEN /\ result' = Raise("TypeError")
               /\ UNCHANGED <<images, imgWrites, uvFile, uvHist>>
          ELSE /\ images' = [images EXCEPT ![dir] = @ \cup {loc.out_file_name[1]}]
               /\ imgWrites' = [imgWrites EXCEPT ![dir] = @ + 1]
               /\ uvFile' = [uvFile EXCEPT ![dir] = record_uvs(@, loc.uvs, args.it)]
               /\ uvHist' = [uvHist EXCEPT ![dir] = Append(@, args.it)]
               /\ result' = [NoResult EXCEPT !.kind = "tuple3",
                               !.grid = <<"image_grid">>,
                               !.psnr = loc.psnr, !.ssim = loc.ssim]
    /\ pc' = "ret"
    /\ UNCHANGED <<config, nets, call, data, args, loc, pre, nCalls>>

(* ------------------------------- Next ---------------------------------- *)
Next ==
    \/ \E d \in Batches : TrainStep(d)
    \/ \E d \in Batches : CallGenerator(d)
    \/ \E d \in Batches : CallDiscriminator(d)
    \/ GenOptStep
    \/ GenReturn
    \/ DiscOptStep
    \/ DiscReturn
    \/ EvalStep
    \/ EvalSynth
    \/ EvalFinish
    \/ \E uv \in UvSamples, dir \in Dirs : RecordUvs(uv, dir)
    \/ \E d \in Batches, mode \in Modes, v \in ValIdxs : Visualize(d, mode, v)
    \/ VisMetrics
    \/ VisSave
    \/ Return

Spec == Init /\ [][Next]_vars

(* ------------------------------ claims --------------------------------- *)
\* the generator eval_step / visualize are meant to use
Preferred == IF hasEMA THEN "E" ELSE "G"

\* C1: in every train_step call that raises no error the generator update
\* is complete before the discriminator update starts, both use the batch
\* passed to train_step, each optimizer is stepped exactly once, and the
\* result is a mapping with exactly the seven documented keys.
C1_TrainStep ==
    call = "train_step" =>
      /\ pc \in {"g_step", "g_done"} =>
           /\ optSteps["D"] = loc.tsOpt["D"]
           /\ loc.x_real["D"] = 0
      /\ pc \in {"d_step", "d_done"} =>
           /\ optSteps["G"] = loc.tsOpt["G"] + 1
           /\ loc.x_real["G"] = data.id
      /\ (pc = "ret" /\ result.kind # "error") =>
           /\ optSteps["G"] = loc.tsOpt["G"] + 1
           /\ optSteps["D"] = loc.tsOpt["D"] + 1
           /\ loc.x_real["G"] = data.id
           /\ loc.x_real["D"] = data.id
           /\ result.kind = "mapping"
           /\ result.keys = {"generator_total", "generator_random", "recon",
                             "discriminator", "regularizer", "real_d", "rand_d"}
           /\ Cardinality(result.keys) = 7
C1_Witness ==
    /\ call = "train_step" /\ pc = "ret" /\ result.kind = "mapping"
    /\ optSteps["G"] = 2 /\ optSteps["D"] = 2

\* C2: in every eval_step and visualize call the images are produced by
\* the EMA generator when one exists and by the live generator otherwise,
\* and the producing generator is the one that was put into evaluation mode.
C2_ProducerIsSelectedGenerator ==
    /\ call = "eval_step" =>
         \A i \in 1..Len(loc.x_fake) :
            /\ loc.x_fake[i].by = Preferred
            /\ loc.x_fake[i].by = loc.gen
            /\ loc.x_fake[i].evalMode
    /\ (call = "visualize" /\ loc.producer # "") =>
         /\ loc.producer = Preferred
         /\ loc.producer = loc.gen
         /\ ~loc.producerTraining

\* C3: train_step_generator leaves every discriminator parameter and the
\* discriminator optimizer unchanged: the discriminator is frozen when the
\* generator loss is backpropagated and only the generator optimizer steps.
C3_GeneratorStepFrame ==
    /\ pc = "g_step" =>
         /\ ~requires_grad["D"]
         /\ grad["D"] = pre.grad["D"]
    /\ pc = "g_done" =>
         /\ params["D"] = pre.params["D"]
         /\ grad["D"] = pre.grad["D"]
         /\ optSteps["D"] = pre.optSteps["D"]
         /\ optSteps["G"] = pre.optSteps["G"] + 1
C3_Witness ==
    /\ pc = "g_done" /\ params["G"] # pre.params["G"]
    /\ pre.grad["D"] /\ params["D"] # InitParams["D"]

\* C4: train_step_discriminator leaves every live-generator parameter,
\* every EMA parameter and the generator optimizer unchanged: the generator
\* is frozen, the random sample is produced under no-gradient in both
\* device branches, and only the discriminator optimizer steps.
C4_DiscriminatorStepFrame ==
    /\ pc = "d_step" =>
         /\ ~requires_grad["G"]
         /\ loc.sampleNoGrad
         /\ grad["G"] = pre.grad["G"]
    /\ pc = "d_done" =>
         /\ params["G"] = pre.params["G"]
         /\ params["E"] = pre.params["E"]
         /\ grad["G"] = pre.grad["G"]
         /\ optSteps["G"] = pre.optSteps["G"]
         /\ optSteps["D"] = pre.optSteps["D"] + 1
C4_Witness ==
    /\ pc = "d_done" /\ multi_gpu /\ hasEMA
    /\ params["D"] # pre.params["D"]
    /\ params["G"] # InitParams["G"]

\* C5: after a completed train_step_generator call with an EMA generator,
\* each EMA parameter is 0.999 times its value before the call plus 0.001
\* times the live parameter after that call's optimizer step; without an
\* EMA generator nothing is updated.
C5_EmaUpdate ==
    pc = "g_done" =>
      \A p \in ParamNames :
         IF hasEMA
         THEN params["E"][p] =
                (999 * pre.params["E"][p] + 1 * params["G"][p]) \div 1000
         ELSE params["E"][p] = pre.params["E"][p]
C5_Witness ==
    /\ pc = "g_done" /\ hasEMA /\ optSteps["G"] = 2
    /\ params["G"] # pre.params["G"]
    /\ params["E"] # pre.params["E"]
    /\ pre.params["E"] # pre.params["G"]

\* image files written / uv.txt lines appended by the running call
ImgWritten(d) == imgWrites[d] - pre.imgWrites[d]
UvAppended(d) == Len(uvFile[d].lines) - Len(pre.uvFile[d].lines)
OtherDir(d) == IF d = "vis_dir" THEN "val_vis_dir" ELSE "vis_dir"
WroteOnlyTo(d) ==
    /\ ImgWritten(d) = 1 /\ UvAppended(d) = 4
    /\ SubSeq(uvFile[d].lines, 1, Len(pre.uvFile[d].lines)) = pre.uvFile[d].lines
    /\ ImgWritten(OtherDir(d)) = 0
    /\ uvFile[OtherDir(d)] = pre.uvFile[OtherDir(d)]
WroteNothing ==
    /\ imgWrites = pre.imgWrites /\ images = pre.images
    /\ uvFile = pre.uvFile

\* C6: visualize writes an image and appends a UV record iff it returns a
\* grid (a call that raises does neither); a call that returns gives, in
\* non-validation mode, (grid, None, None) and writes to vis_dir; in
\* validation mode with a true save flag, (grid, psnr, ssim) and writes to
\* val_vis_dir; in validation mode otherwise, (None, psnr, ssim) and writes
\* nothing.
C6_VisualizeOutputs ==
    (call = "visualize" /\ pc = "ret") =>
      /\ (result.grid # NoSeq) <=> ~WroteNothing
      /\ result.kind = "error" => (result.grid = NoSeq /\ WroteNothing)
      /\ result.kind # "error" =>
           /\ result.kind = "tuple3"
           /\ args.mode # "val" =>
                /\ result.grid # NoSeq
                /\ result.psnr = NoSeq /\ result.ssim = NoSeq
                /\ WroteOnlyTo("vis_dir")
           /\ (args.mode = "val" /\ args.val_idx \in {"True", "1"}) =>
                /\ result.grid # NoSeq
                /\ result.psnr # NoSeq /\ result.ssim # NoSeq
                /\ WroteOnlyTo("val_vis_dir")
           /\ (args.mode = "val" /\ args.val_idx \notin {"True", "1"}) =>
                /\ result.grid = NoSeq
                /\ result.psnr # NoSeq /\ result.ssim # NoSeq
                /\ WroteNothing
C6_Witness ==
    /\ call = "visualize" /\ pc = "ret" /\ result.kind = "tuple3"
    /\ args.mode = "val" /\ args.val_idx = "False"
    /\ uvFile["val_vis_dir"].exists

\* C7 as stated: every record_uvs call appends exactly 4 lines (pred,
\* swap, rand, blank) and keeps all earlier lines, whether or not the file
\* existed; after n calls on a directory its uv.txt holds 4n lines.
C7_Original ==
    (pc = "ret" /\ call = "record_uvs" /\ result.kind # "error") =>
      /\ UvAppended(args.dir) = 4
      /\ SubSeq(uvFile[args.dir].lines, 1, Len(pre.uvFile[args.dir].lines))
           = pre.uvFile[args.dir].lines
      /\ Len(uvFile[args.dir].lines) = 4 * Len(uvHist[args.dir])

\* C7 amended: every record_uvs call appends exactly 4 lines (pred, swap,
\* rand, blank) and keeps all earlier lines, whether or not the file
\* existed; after n calls on a directory its uv.txt holds the lines it held
\* when the trainer was built followed by 4n lines in call order.
C7_UvAppendOnly ==
    /\ \A d \in Dirs :
         LET base == Len(uvInit[d])
         IN /\ Len(uvFile[d].lines) = base + 4 * Len(uvHist[d])
            /\ SubSeq(uvFile[d].lines, 1, base) = uvInit[d]
            /\ uvFile[d].exists <=> (uvHist[d] # NoSeq \/ uvInit[d] # NoSeq)
            /\ \A i \in 1..Len(uvHist[d]) :
                 /\ uvFile[d].lines[base + 4 * i - 3].label = "pred"
                 /\ uvFile[d].lines[base + 4 * i - 2].label = "swap"
                 /\ uvFile[d].lines[base + 4 * i - 1].label = "rand"
                 /\ uvFile[d].lines[base + 4 * i].label = ""
                 /\ \A j \in 1..3 :
                      uvFile[d].lines[base + 4 * i - j].it = uvHist[d][i]
    /\ pc = "ret" =>
         \A d \in Dirs :
            /\ UvAppended(d) \in {0, 4}
            /\ SubSeq(uvFile[d].lines, 1, Len(pre.uvFile[d].lines))
                 = pre.uvFile[d].lines
            /\ (call = "record_uvs" /\ args.dir = d /\ result.kind # "error")
                 => UvAppended(d) = 4
C7_Witness ==
    /\ call = "record_uvs" /\ pc = "ret" /\ args.dir = "vis_dir"
    /\ Len(uvHist["vis_dir"]) = 2
    /\ uvInit["vis_dir"] # NoSeq

\* C8 as stated: eval_step with n_eval_iterations = k invokes the selected
\* generator exactly k times, then computes the statistics once over all k
\* batches and returns a mapping with the single key fid_score.
C8_Original ==
    (call = "eval_step" /\ pc = "ret") =>
      /\ Len(loc.x_fake) = n_eval_iterations
      /\ loc.nStats = 1
      /\ loc.statsOf = loc.x_fake
      /\ result.kind = "mapping"
      /\ result.keys = {"fid_score"}

\* C8 amended: eval_step invokes the selected generator exactly k times and
\* never computes statistics before all k invocations are done; for k >= 1
\* the statistics are computed once over the concatenation of all k
\* batches and, when fid_dict holds m and s, the call returns a mapping with
\* the single key fid_score; for k = 0 no batch is synthesized and the call
\* raises at the concatenation, computing no statistics.
C8_EvalStep ==
    call = "eval_step" =>
      /\ Len(loc.x_fake) <= n_eval_iterations
      /\ \A i \in 1..Len(loc.x_fake) : loc.x_fake[i].by = loc.gen
      /\ loc.nStats > 0 => Len(loc.x_fake) = n_eval_iterations
      /\ pc = "ret" =>
           /\ Len(loc.x_fake) = n_eval_iterations
           /\ n_eval_iterations >= 1 =>
                /\ loc.nStats = 1
                /\ loc.statsOf = loc.x_fake
                /\ {"m", "s"} \subseteq fid_dict =>
                     /\ result.kind = "mapping"
                     /\ result.keys = {"fid_score"}
           /\ n_eval_iterations = 0 =>
                /\ loc.x_fake = NoSeq
                /\ loc.nStats = 0
                /\ result.kind = "error" /\ result.err = "RuntimeError"
C8_Witness ==
    /\ call = "eval_step" /\ pc = "ret" /\ result.kind = "mapping"
    /\ n_eval_iterations = 2 /\ Len(loc.statsOf) = 2

\* what every failed eval_step leaves behind: no result, parameters and
\* optimizers untouched, selected generator in evaluation mode
EvalFailedCleanly ==
    /\ result.kind = "error"
    /\ params = pre.params /\ optSteps = pre.optSteps
    /\ loc.gen = Preferred /\ ~training[loc.gen]

\* C9 as stated: when fid_dict lacks m or s, eval_step ends in a lookup
\* error raised after all n_eval_iterations batches were synthesized and
\* the statistics computed, with parameters and optimizers unchanged and
\* the selected generator left in evaluation mode.
C9_Original ==
    (call = "eval_step" /\ pc = "ret" /\ ~({"m", "s"} \subseteq fid_dict)) =>
      /\ EvalFailedCleanly
      /\ result.err = "KeyError"
      /\ Len(loc.x_fake) = n_eval_iterations
      /\ loc.nStats = 1

\* C9 amended: when fid_dict lacks m or s and n_eval_iterations >= 1,
\* eval_step ends in a lookup error raised after all batches were
\* synthesized and the statistics computed; when n_eval_iterations = 0 it
\* ends earlier, in the error of concatenating an empty list; either way
\* there is no result, parameters and optimizers are unchanged and the
\* selected generator is left in evaluation mode.
C9_MissingFidKeys ==
    (call = "eval_step" /\ pc = "ret" /\ ~({"m", "s"} \subseteq fid_dict)) =>
      /\ EvalFailedCleanly
      /\ n_eval_iterations >= 1 =>
           /\ result.err = "KeyError"
           /\ Len(loc.x_fake) = n_eval_iterations
           /\ loc.nStats = 1
      /\ n_eval_iterations = 0 =>
           /\ result.err = "RuntimeError"
           /\ loc.nStats = 0
C9_Witness ==
    /\ call = "eval_step" /\ pc = "ret" /\ fid_dict = {"m"}
    /\ result.err = "KeyError" /\ n_eval_iterations = 2 /\ loc.nStats = 1

\* C10: whenever an optimizer is stepped, generator and discriminator are
\* in training mode and gradient tracking is on for exactly the network
\* whose optimizer steps, also after eval_step / visualize put the live
\* generator into evaluation mode; after a completed train_step the
\* generator is frozen and the discriminator unfrozen.
C10_StepModes ==
    /\ [][ /\ optSteps'["G"] # optSteps["G"] =>
                /\ training["G"] /\ training["D"]
                /\ requires_grad["G"] /\ ~requires_grad["D"]
           /\ optSteps'["D"] # optSteps["D"] =>
                /\ training["G"] /\ training["D"]
                /\ ~requires_grad["G"] /\ requires_grad["D"] ]_vars
    /\ []((call = "train_step" /\ pc = "ret" /\ result.kind = "mapping") =>
            (~requires_grad["G"] /\ requires_grad["D"]))
C10_Witness ==
    /\ call = "train_step" /\ pc = "g_step" /\ ~hasEMA
    /\ ~pre.training["G"] /\ training["G"]
====
